---- MODULE Spec2Model ----
(***************************************************************************)
(* Model of src/model/lru.py: the recurrent stack of LRURec.               *)
(*                                                                         *)
(* LRU.forward embeds a batch of item-id sequences, LRUModel.forward pads  *)
(* the time axis on the left to a power of two, runs the LRU blocks (each  *)
(* an LRULayer followed by a position-wise feed-forward) and truncates.    *)
(* LRULayer.forward evaluates the masked linear recurrence by the          *)
(* doubling scan of LRULayer.lru_parallel, one call per level.             *)
(*                                                                         *)
(* Tensors are kept as torch keeps them: one flat row-major sequence plus  *)
(* the sizes of its axes; reshape only regroups the flat sequence.         *)
(* Tensors [B, T, d_model] have d_model = 1 and hold one integer per       *)
(* position; tensors [B, T, hidden_size] hold HiddenSize complex numbers   *)
(* per position.  Complex numbers are pairs <<re, im>> of integers: the    *)
(* scan uses only + and * of the complex field, so every identity between  *)
(* two scan expressions is an identity of commutative rings and is checked *)
(* exactly in the Gaussian integers (floating-point rounding is outside    *)
(* the model).  Dropout is the identity (evaluation mode).                 *)
(***************************************************************************)
EXTENDS Integers, Sequences, FiniteSets, TLC

(***************************************************************************)
(* Bounds of the model.                                                    *)
(***************************************************************************)
MaxSeqLen == 5      \* seq_len ranges over 1..MaxSeqLen
MaxBatch == 2       \* batch size ranges over 1..MaxBatch
MaxCells == 6       \* batch size * seq_len is at most MaxCells
MaxBlocks == 2      \* args.bert_num_blocks ranges over 0..MaxBlocks
NumItems == 1       \* args.num_items: item ids are 1..NumItems, 0 is padding
MaxLayerBatch == 4  \* batch size of a direct call of LRULayer.forward

HiddenSize == 2     \* self.hidden_size = 2 * d_model, with d_model = 1
NormMod == 3        \* range of the stand-in for nn.LayerNorm

(***************************************************************************)
(* Complex arithmetic (torch.cfloat), on pairs <<re, im>>.                 *)
(***************************************************************************)
CZero == <<0, 0>>

CAdd(a, b) == <<a[1] + b[1], a[2] + b[2]>>

CMul(a, b) == <<a[1] * b[1] - a[2] * b[2], a[1] * b[2] + a[2] * b[1]>>

\* a real (or a bool, as 0 / 1) cast to complex
CReal(r) == <<r, 0>>

Channels == 1 .. HiddenSize

\* elementwise operations on vectors of HiddenSize complex numbers
VAdd(u, v) == [c \in Channels |-> CAdd(u[c], v[c])]

VMul(u, v) == [c \in Channels |-> CMul(u[c], v[c])]

VScale(u, r) == [c \in Channels |-> CMul(u[c], CReal(r))]

VZero == [c \in Channels |-> CZero]

Pow2(n) == 2 ^ n

\* mutant of CeilLog2: int(np.log2(n)), the floor instead of the ceiling
RECURSIVE FloorLog2From(_, _)
FloorLog2From(n, k) == IF Pow2(k + 1) > n THEN k ELSE FloorLog2From(n, k + 1)

CeilLog2_floor(n) == FloorLog2From(n, 0)

\* int(np.ceil(np.log2(n))) for n >= 1: the least k with 2^k >= n
RECURSIVE CeilLog2From(_, _)
CeilLog2From(n, k) == IF Pow2(k) >= n THEN k ELSE CeilLog2From(n, k + 1)

CeilLog2(n) == CeilLog2From(n, 0)

Bool2Int(b) == IF b THEN 1 ELSE 0

(***************************************************************************)
(* Trainable parameters.  Each LRULayer owns params_log (nu, theta, gamma  *)
(* in log space) and the projections in_proj, out_proj.  A parameter set   *)
(* records what LRULayer.forward derives from params_log: lamb, the        *)
(* eigenvalue exp(complex(-nu, theta)) of each channel, and gamma.         *)
(***************************************************************************)
ParamChoices ==
    << [lamb |-> <<(<<2, 0>>), (<<0, 2>>)>>, gamma |-> <<1, 2>>],
       [lamb |-> <<(<<1, 1>>), (<<-1, 2>>)>>, gamma |-> <<2, 1>>] >>

\* the parameters of the blocks of one model: the choices taken in turn from
\* the first-th on, so that neighbouring blocks differ
BlockParams(n, first) ==
    [k \in 1 .. n |-> ParamChoices[((first + k) % Len(ParamChoices)) + 1]]

\* in_proj = nn.Linear(d_model, hidden_size) over cfloat: weight and bias
InProjWeight == <<(<<1, 0>>), (<<1, 1>>)>>

InProjBias == <<(<<1, 0>>), (<<0, 1>>)>>

\* out_proj = nn.Linear(hidden_size, d_model) over cfloat: weight and bias
OutProjWeight == <<(<<1, 0>>), (<<0, 1>>)>>

OutProjBias == <<1, 0>>

\* nn.Embedding row of an item id (d_model = 1)
TokenEmbedding(tok) == tok

\* stand-in for nn.LayerNorm on one position: a bounded pointwise map
LayerNorm(v) == v % NormMod


\* stand-in for nn.GELU on one position
Activation(v) == IF v > 0 THEN v ELSE 0

(***************************************************************************)
(* Tensors: [B |-> size of axis 0, T |-> size of axis 1 (time), d |-> the  *)
(* flat row-major sequence of the B * T positions].                        *)
(***************************************************************************)
Tensor(b, t, data) == [B |-> b, T |-> t, d |-> data]

\* the element at row r, time j (both from 1)
At(ten, r, j) == ten.d[(r - 1) * ten.T + j]

\* mutant of PadLeft: the copies of `zero` go behind every row
PadLeft_right(ten, left, zero) ==
    LET T2 == ten.T + left
    IN  Tensor(ten.B, T2,
               [n \in 1 .. ten.B * T2 |->
                   LET r == ((n - 1) \div T2) + 1
                       j == ((n - 1) % T2) + 1
                   IN  IF j > ten.T THEN zero ELSE At(ten, r, j)])

\* F.pad on the time axis: `left` copies of `zero` in front of every row
PadLeft(ten, left, zero) ==
    LET T2 == ten.T + left
    IN  Tensor(ten.B, T2,
               [n \in 1 .. ten.B * T2 |->
                   LET r == ((n - 1) \div T2) + 1
                       j == ((n - 1) % T2) + 1
                   IN  IF j <= left THEN zero ELSE At(ten, r, j - left)])

\* mutant of Trailing: ten[:, :k], the leading positions of every row
Trailing_leading(ten, k) ==
    LET T2 == IF k < ten.T THEN k ELSE ten.T
    IN  Tensor(ten.B, T2,
               [n \in 1 .. ten.B * T2 |->
                   LET r == ((n - 1) \div T2) + 1
                       j == ((n - 1) % T2) + 1
                   IN  At(ten, r, j)])

\* ten[:, -k:] for 1 <= k: the trailing min(k, T) positions of every row
Trailing(ten, k) ==
    LET T2 == IF k < ten.T THEN k ELSE ten.T
    IN  Tensor(ten.B, T2,
               [n \in 1 .. ten.B * T2 |->
                   LET r == ((n - 1) \div T2) + 1
                       j == ((n - 1) % T2) + 1
                   IN  At(ten, r, ten.T - T2 + j)])

(***************************************************************************)
(* LRUEmbedding.                                                           *)
(***************************************************************************)
get_mask(toks) ==
    Tensor(toks.B, toks.T, [n \in 1 .. toks.B * toks.T |-> toks.d[n] > 0])

Embed(toks) ==
    Tensor(toks.B, toks.T,
           [n \in 1 .. toks.B * toks.T |-> LayerNorm(TokenEmbedding(toks.d[n]))])

(***************************************************************************)
(* LRULayer.                                                               *)
(***************************************************************************)
\* in_proj(x.to(cfloat)) * gamma at one position: the driving input "bu"
InProj(v, gamma) ==
    [c \in Channels |->
        CMul(CAdd(CMul(InProjWeight[c], CReal(v)), InProjBias[c]), CReal(gamma[c]))]

DrivingInput(x, p) ==
    Tensor(x.B, x.T, [n \in 1 .. x.B * x.T |-> InProj(x.d[n], p.gamma)])

\* out_proj(h).real at one position
RECURSIVE OutProjSum(_, _)
OutProjSum(hv, c) ==
    IF c = 0 THEN OutProjBias
    ELSE CAdd(OutProjSum(hv, c - 1), CMul(OutProjWeight[c], hv[c]))

OutProjReal(hv) == OutProjSum(hv, HiddenSize)[1]

\* mutant of ExtendLamb: torch.cat((lamb, lamb), 0), the powers not advanced
ExtendLamb_repeated(lamb) == lamb \o lamb

\* mutant of ExtendLamb: lamb * lamb[0], the first entry instead of the last
ExtendLamb_byFirst(lamb) == lamb \o [k \in 1 .. Len(lamb) |-> VMul(lamb[k], lamb[1])]

\* torch.cat((lamb, lamb * lamb[-1]), 0)
ExtendLamb(lamb) == lamb \o [k \in 1 .. Len(lamb) |-> VMul(lamb[k], lamb[Len(lamb)])]

LambAtLevel(i, lamb) == IF i > 1 THEN ExtendLamb(lamb) ELSE lamb

\* lamb[k] under broadcasting: a single row is used for every k
LambRow(lamb, k) == IF Len(lamb) = 1 THEN lamb[1] ELSE lamb[k]

\* mutant of lru_parallel_ok: a reshape that accepts any size and keeps the
\* whole blocks, so only the broadcast of lamb can fail
lru_parallel_ok_anySize(i, h, lamb, mask, B, L, D) ==
    LET l == Pow2(i)
    IN  Len(LambAtLevel(i, lamb)) \in {1, l \div 2}

\* the reshapes and the broadcast of lru_parallel are defined
lru_parallel_ok(i, h, lamb, mask, B, L, D) ==
    LET l == Pow2(i)
        n == (B * L) \div l
    IN  /\ n * l = Len(h.d)
        /\ n * l = Len(mask.d)
        /\ Len(LambAtLevel(i, lamb)) \in {1, l \div 2}

\* mutant of lru_parallel: the carry is not multiplied by the mask
lru_parallel_unmasked(i, h, lamb, mask, B, L, D) ==
    LET l == Pow2(i)
        n == (B * L) \div l
        half == l \div 2
        lamb2 == LambAtLevel(i, lamb)
        pos(r, k) == (r - 1) * l + k
        carry(r, k) == VMul(LambRow(lamb2, k), h.d[pos(r, half)])
        new(r, k) ==
            IF k <= half THEN h.d[pos(r, k)]
            ELSE VAdd(h.d[pos(r, k)], carry(r, k - half))
    IN  [h |-> Tensor(n, l, [m \in 1 .. n * l |->
                                new(((m - 1) \div l) + 1, ((m - 1) % l) + 1)]),
         lamb |-> lamb2]

\* mutant of lru_parallel: the mask is read at the receiving position,
\* mask_[:, l // 2:], instead of at the last position of the first half
lru_parallel_maskAtTarget(i, h, lamb, mask, B, L, D) ==
    LET l == Pow2(i)
        n == (B * L) \div l
        half == l \div 2
        lamb2 == LambAtLevel(i, lamb)
        pos(r, k) == (r - 1) * l + k
        carry(r, k) ==
            VScale(VMul(LambRow(lamb2, k), h.d[pos(r, half)]),
                   Bool2Int(mask.d[pos(r, half + k)]))
        new(r, k) ==
            IF k <= half THEN h.d[pos(r, k)]
            ELSE VAdd(h.d[pos(r, k)], carry(r, k - half))
    IN  [h |-> Tensor(n, l, [m \in 1 .. n * l |->
                                new(((m - 1) \div l) + 1, ((m - 1) % l) + 1)]),
         lamb |-> lamb2]

\* mutant of lru_parallel: the carry is taken from the first position of the
\* first half, h1[:, :1], instead of the last
lru_parallel_firstOfHalf(i, h, lamb, mask, B, L, D) ==
    LET l == Pow2(i)
        n == (B * L) \div l
        half == l \div 2
        lamb2 == LambAtLevel(i, lamb)
        pos(r, k) == (r - 1) * l + k
        carry(r, k) ==
            VScale(VMul(LambRow(lamb2, k), h.d[pos(r, 1)]),
                   Bool2Int(mask.d[pos(r, half)]))
        new(r, k) ==
            IF k <= half THEN h.d[pos(r, k)]
            ELSE VAdd(h.d[pos(r, k)], carry(r, k - half))
    IN  [h |-> Tensor(n, l, [m \in 1 .. n * l |->
                                new(((m - 1) \div l) + 1, ((m - 1) % l) + 1)]),
         lamb |-> lamb2]

\* mutant of lru_parallel: the mask slice is one position late,
\* mask_[:, l // 2:l // 2 + 1], the first position of the second half
lru_parallel_maskAfterBoundary(i, h, lamb, mask, B, L, D) ==
    LET l == Pow2(i)
        n == (B * L) \div l
        half == l \div 2
        lamb2 == LambAtLevel(i, lamb)
        pos(r, k) == (r - 1) * l + k
        carry(r, k) ==
            VScale(VMul(LambRow(lamb2, k), h.d[pos(r, half)]),
                   Bool2Int(mask.d[pos(r, half + 1)]))
        new(r, k) ==
            IF k <= half THEN h.d[pos(r, k)]
            ELSE VAdd(h.d[pos(r, k)], carry(r, k - half))
    IN  [h |-> Tensor(n, l, [m \in 1 .. n * l |->
                                new(((m - 1) \div l) + 1, ((m - 1) % l) + 1)]),
         lamb |-> lamb2]

\* one level of the scan: returns the pair (h, lamb) as a record
lru_parallel(i, h, lamb, mask, B, L, D) ==
    LET l == Pow2(i)
        n == (B * L) \div l
        half == l \div 2
        lamb2 == LambAtLevel(i, lamb)
        pos(r, k) == (r - 1) * l + k
        carry(r, k) ==
            VScale(VMul(LambRow(lamb2, k), h.d[pos(r, half)]),
                   Bool2Int(mask.d[pos(r, half)]))
        new(r, k) ==
            IF k <= half THEN h.d[pos(r, k)]
            ELSE VAdd(h.d[pos(r, k)], carry(r, k - half))
    IN  [h |-> Tensor(n, l, [m \in 1 .. n * l |->
                                new(((m - 1) \div l) + 1, ((m - 1) % l) + 1)]),
         lamb |-> lamb2]

\* mutant of LayerOutput: the residual read from the projected tensor, the
\* real part of the first channel of h, instead of the input x
LayerOutput_projectedResidual(h, x) ==
    Tensor(x.B, x.T,
           [n \in 1 .. x.B * x.T |->
               LayerNorm(OutProjReal(h.d[n]) + h.d[n][1][1])])

\* dropout(out_proj(h).real) + out_vector(x), then layer_norm
LayerOutput(h, x) ==
    Tensor(x.B, x.T,
           [n \in 1 .. x.B * x.T |-> LayerNorm(OutProjReal(h.d[n]) + x.d[n])])

(***************************************************************************)
(* PositionwiseFeedForward.forward, a pointwise map.                       *)
(***************************************************************************)
FeedForward(x) ==
    Tensor(x.B, x.T,
           [n \in 1 .. x.B * x.T |-> LayerNorm(Activation(x.d[n]) + x.d[n])])


(***************************************************************************)
(* State.                                                                  *)
(*   pc       where LRU.forward stands                                     *)
(*   tokens   the batch of item-id sequences handed to LRU.forward         *)
(*   layers   args.bert_num_blocks; params[k] the parameters of block k    *)
(*   x, mask  the value tensor and the mask of LRUModel.forward            *)
(*   seq_len, mask_   locals of LRUModel.forward                           *)
(*   blk      the block the loop of LRUModel.forward stands at             *)
(*   h, lamb, i, dims   locals of LRULayer.forward: the scan state, the    *)
(*            eigenvalue powers, the levels done, [log2_L, B, L, D]        *)
(* History variables, read by no action:                                   *)
(*   x_arg    the value tensor as LRUModel.forward received it             *)
(*   calls    the block and the (x, mask) arguments of every block call    *)
(*   npad, ntrunc   how often the padding and the truncation ran           *)
(***************************************************************************)
VARIABLES pc, tokens, layers, params, x, mask, seq_len, mask_, blk,
          h, lamb, i, dims, x_arg, calls, npad, ntrunc

vars == <<pc, tokens, layers, params, x, mask, seq_len, mask_, blk,
          h, lamb, i, dims, x_arg, calls, npad, ntrunc>>

NoTensor == Tensor(0, 0, <<>>)

NoDims == [log2_L |-> 0, B |-> 0, L |-> 0, D |-> 0]

Shapes ==
    {s \in (1 .. MaxBatch) \X (1 .. MaxSeqLen) : s[1] * s[2] <= MaxCells}

Init ==
    /\ pc = "embed"
    /\ \E s \in Shapes :
         \E data \in [1 .. s[1] * s[2] -> 0 .. NumItems] :
            tokens = Tensor(s[1], s[2], data)
    /\ layers \in 0 .. MaxBlocks
    /\ \E first \in 1 .. Len(ParamChoices) : params = BlockParams(layers, first)
    /\ x = NoTensor
    /\ mask = NoTensor
    /\ seq_len = 0
    /\ mask_ = NoTensor
    /\ blk = 0
    /\ h = NoTensor
    /\ lamb = <<>>
    /\ i = 0
    /\ dims = NoDims
    /\ x_arg = NoTensor
    /\ calls = <<>>
    /\ npad = 0
    /\ ntrunc = 0

\* LRU.forward: x, mask = self.embedding(x), then the call of LRUModel.forward
EmbedStep ==
    /\ pc = "embed"
    /\ x' = Embed(tokens)
    /\ mask' = get_mask(tokens)
    /\ x_arg' = Embed(tokens)
    /\ pc' = "pad"
    /\ UNCHANGED <<tokens, layers, params, seq_len, mask_, blk, h, lamb, i,
                   dims, calls, npad, ntrunc>>

\* mutant of PadStep: the mask is handed on unpadded
PadStep_maskUnpadded ==
    /\ pc = "pad"
    /\ LET log2_L == CeilLog2(x.T)
       IN  /\ seq_len' = x.T
           /\ x' = PadLeft(x, Pow2(log2_L) - x.T, 0)
           /\ mask_' = mask
    /\ npad' = npad + 1
    /\ blk' = 1
    /\ pc' = "layer"
    /\ UNCHANGED <<tokens, layers, params, mask, h, lamb, i, dims, x_arg,
                   calls, ntrunc>>

\* LRUModel.forward: left padding to the power of 2
PadStep ==
    /\ pc = "pad"
    /\ LET log2_L == CeilLog2(x.T)
       IN  /\ seq_len' = x.T
           /\ x' = PadLeft(x, Pow2(log2_L) - x.T, 0)
           /\ mask_' = PadLeft(mask, Pow2(log2_L) - mask.T, FALSE)
    /\ npad' = npad + 1
    /\ blk' = 1
    /\ pc' = "layer"
    /\ UNCHANGED <<tokens, layers, params, mask, h, lamb, i, dims, x_arg,
                   calls, ntrunc>>

\* mutant of LayerBegin: the level count taken from the flattened
\* (batch * time) axis instead of the time axis
LayerBegin_flatLevels ==
    /\ pc = "layer"
    /\ blk <= layers
    /\ calls' = Append(calls, [blk |-> blk, x |-> x, mask |-> mask_])
    /\ lamb' = <<params[blk].lamb>>
    /\ h' = DrivingInput(x, params[blk])
    /\ dims' = [log2_L |-> CeilLog2(x.B * x.T), B |-> x.B, L |-> x.T, D |-> HiddenSize]
    /\ i' = 0
    /\ pc' = "scan"
    /\ UNCHANGED <<tokens, layers, params, x, mask, seq_len, mask_, blk,
                   x_arg, npad, ntrunc>>

\* mutant of LayerBegin: one level more than ceil(log2(L))
LayerBegin_extraLevel ==
    /\ pc = "layer"
    /\ blk <= layers
    /\ calls' = Append(calls, [blk |-> blk, x |-> x, mask |-> mask_])
    /\ lamb' = <<params[blk].lamb>>
    /\ h' = DrivingInput(x, params[blk])
    /\ dims' = [log2_L |-> CeilLog2(x.T) + 1, B |-> x.B, L |-> x.T, D |-> HiddenSize]
    /\ i' = 0
    /\ pc' = "scan"
    /\ UNCHANGED <<tokens, layers, params, x, mask, seq_len, mask_, blk,
                   x_arg, npad, ntrunc>>

\* lru_block.forward(x, mask_) entering LRULayer.forward: lamb, bu, sizes
LayerBegin ==
    /\ pc = "layer"
    /\ blk <= layers
    /\ calls' = Append(calls, [blk |-> blk, x |-> x, mask |-> mask_])
    /\ lamb' = <<params[blk].lamb>>
    /\ h' = DrivingInput(x, params[blk])
    /\ dims' = [log2_L |-> CeilLog2(x.T), B |-> x.B, L |-> x.T, D |-> HiddenSize]
    /\ i' = 0
    /\ pc' = "scan"
    /\ UNCHANGED <<tokens, layers, params, x, mask, seq_len, mask_, blk,
                   x_arg, npad, ntrunc>>

\* one turn of "for i in range(log2_L)": a call of lru_parallel
ScanLevel ==
    /\ pc = "scan"
    /\ i < dims.log2_L
    /\ IF lru_parallel_ok(i + 1, h, lamb, mask_, dims.B, dims.L, dims.D)
       THEN LET r == lru_parallel(i + 1, h, lamb, mask_, dims.B, dims.L, dims.D)
            IN  /\ h' = r.h
                /\ lamb' = r.lamb
                /\ i' = i + 1
                /\ pc' = "scan"
       ELSE /\ pc' = "error"
            /\ UNCHANGED <<h, lamb, i>>
    /\ UNCHANGED <<tokens, layers, params, x, mask, seq_len, mask_, blk,
                   dims, x_arg, calls, npad, ntrunc>>

\* after the loop: project back, add the residual, normalize
LayerEnd ==
    /\ pc = "scan"
    /\ i >= dims.log2_L
    /\ IF h.B = x.B /\ h.T = x.T
       THEN /\ x' = LayerOutput(h, x)
            /\ pc' = "ffn"
       ELSE /\ pc' = "error"
            /\ UNCHANGED x
    /\ UNCHANGED <<tokens, layers, params, mask, seq_len, mask_, blk, h,
                   lamb, i, dims, x_arg, calls, npad, ntrunc>>

\* LRUBlock.forward: the feed-forward, and the return to the loop over blocks
FeedForwardStep ==
    /\ pc = "ffn"
    /\ x' = FeedForward(x)
    /\ blk' = blk + 1
    /\ pc' = "layer"
    /\ UNCHANGED <<tokens, layers, params, mask, seq_len, mask_, h, lamb, i,
                   dims, x_arg, calls, npad, ntrunc>>

\* mutant of TruncateStep: the truncation sits inside the loop over blocks
TruncateStep_early ==
    /\ pc = "layer"
    /\ blk > 1
    /\ x' = Trailing(x, seq_len)
    /\ ntrunc' = ntrunc + 1
    /\ pc' = "done"
    /\ UNCHANGED <<tokens, layers, params, mask, seq_len, mask_, blk, h,
                   lamb, i, dims, x_arg, calls, npad>>

\* LRUModel.forward after the loop: x = x[:, -seq_len:]
TruncateStep ==
    /\ pc = "layer"
    /\ blk > layers
    /\ x' = Trailing(x, seq_len)
    /\ ntrunc' = ntrunc + 1
    /\ pc' = "done"
    /\ UNCHANGED <<tokens, layers, params, mask, seq_len, mask_, blk, h,
                   lamb, i, dims, x_arg, calls, npad>>

Next ==
    \/ EmbedStep
    \/ PadStep
    \/ LayerBegin
    \/ ScanLevel
    \/ LayerEnd
    \/ FeedForwardStep
    \/ TruncateStep

Spec == Init /\ [][Next]_vars

\* The calls whose termination is checked: every shape, depth and parameter
\* choice of Init, each row a run of padding (item 0) followed by item 1.  The
\* control of forward reads sizes only, never a value.
FairInit ==
    /\ Init
    /\ \A n \in 1 .. tokens.B * tokens.T : tokens.d[n] \in {0, 1}
    /\ \A r \in 1 .. tokens.B :
          \A a, b \in 1 .. tokens.T :
             (a < b /\ At(tokens, r, a) > 0) => At(tokens, r, b) > 0

\* the interpreter runs each statement of forward to its end: no step that is
\* enabled is postponed for ever
FairSpec == FairInit /\ [][Next]_vars /\ WF_vars(Next)

(***************************************************************************)
(* LRULayer.forward called on its own, with a time length that nothing has *)
(* padded: every batch size up to MaxLayerBatch and every length up to     *)
(* MaxSeqLen, each row k padding positions followed by items.              *)
(***************************************************************************)
LayerShapes == (1 .. MaxLayerBatch) \X (1 .. MaxSeqLen)

LayerInit ==
    /\ pc = "layer"
    /\ \E s \in LayerShapes :
         \E k \in 0 .. s[2] :
            tokens = Tensor(s[1], s[2],
                            [n \in 1 .. s[1] * s[2] |->
                                IF ((n - 1) % s[2]) + 1 <= k THEN 0 ELSE 1])
    /\ layers = 1
    /\ \E first \in 1 .. Len(ParamChoices) : params = BlockParams(layers, first)
    /\ x = Embed(tokens)
    /\ mask = get_mask(tokens)
    /\ seq_len = tokens.T
    /\ mask_ = mask
    /\ blk = 1
    /\ h = NoTensor
    /\ lamb = <<>>
    /\ i = 0
    /\ dims = NoDims
    /\ x_arg = x
    /\ calls = <<>>
    /\ npad = 0
    /\ ntrunc = 0

LayerNext ==
    \/ LayerBegin
    \/ ScanLevel
    \/ LayerEnd

LayerSpec == LayerInit /\ [][LayerNext]_vars


(***************************************************************************)
(* The whole loop of LRULayer.forward as one function of the driving       *)
(* input, the eigenvalues and the mask: what the ScanLevel steps compute.  *)
(***************************************************************************)
RECURSIVE ScanLoop(_, _, _, _, _, _, _, _)
ScanLoop(lv, log2_L, hh, lm, msk, B, L, D) ==
    IF lv >= log2_L THEN hh
    ELSE LET r == lru_parallel(lv + 1, hh, lm, msk, B, L, D)
         IN  ScanLoop(lv + 1, log2_L, r.h, r.lamb, msk, B, L, D)

Scan(h0, lam, msk) ==
    ScanLoop(0, CeilLog2(h0.T), h0, <<lam>>, msk, h0.B, h0.T, HiddenSize)

(***************************************************************************)
(* Vocabulary of the properties.                                           *)
(***************************************************************************)
IsPow2(n) == \E k \in 0 .. n : Pow2(k) = n

\* the scan of the running layer has done all its levels
ScanDone == pc = "scan" /\ i = dims.log2_L

\* driving input and eigenvalues of the running layer
H0 == DrivingInput(x, params[blk])

Lam == params[blk].lamb

Rows == 1 .. dims.B

Times == 1 .. dims.L

\* position (row r, time j) of a [B, L] tensor, whatever its current view
Flat(ten, r, j) == ten.d[(r - 1) * dims.L + j]

VOne == [c \in Channels |-> CReal(1)]

\* lam^k, channel by channel
RECURSIVE VPow(_, _)
VPow(lam, k) == IF k = 0 THEN VOne ELSE VMul(lam, VPow(lam, k - 1))

\* the sequential recurrence s[t] = lam * s[t-1] * valid[t-1] + h0[t], s[-1] = 0
RECURSIVE Sequential(_, _, _, _, _)
Sequential(h0, msk, lam, r, j) ==
    IF j = 1 THEN Flat(h0, r, 1)
    ELSE VAdd(VScale(VMul(lam, Sequential(h0, msk, lam, r, j - 1)),
                     Bool2Int(Flat(msk, r, j - 1))),
              Flat(h0, r, j))

\* the mask of row r is k invalid positions followed by valid ones, up to time j
LeftPaddedUpTo(msk, r, j) ==
    \A a, b \in 1 .. j : (a < b /\ Flat(msk, r, a)) => Flat(msk, r, b)

LeftPadded(msk, r) == LeftPaddedUpTo(msk, r, dims.L)

(***************************************************************************)
(* C1 as stated: for every power-of-two length and EVERY mask the scan     *)
(* after all its levels equals the sequential recurrence at every          *)
(* position.  The scan gates a carry only by the validity of the block     *)
(* boundary it crosses, so an invalid position inside the second half      *)
(* (mask valid, valid, invalid, valid) does not stop it.                   *)
(***************************************************************************)
C1_ScanEqualsSequentialAnyMask ==
    ScanDone =>
        LET h0 == H0
        IN  \A r \in Rows : \A j \in Times :
                Flat(h, r, j) = Sequential(h0, mask_, Lam, r, j)

(***************************************************************************)
(* C1 amended: for every power-of-two length and every mask, the scan      *)
(* after all its levels equals the sequential recurrence at every position *)
(* t before which no invalid position follows a valid one.                 *)
(***************************************************************************)
C1_ScanEqualsSequentialBeforeGap ==
    ScanDone =>
        LET h0 == H0
        IN  \A r \in Rows : \A j \in Times :
                LeftPaddedUpTo(mask_, r, j - 1) =>
                    Flat(h, r, j) = Sequential(h0, mask_, Lam, r, j)

\* a finished two-level scan over a mask with a gap, (invalid, valid, valid,
\* invalid), whose last position still has a gap-free past and takes a carry
C1_Witness ==
    /\ ScanDone
    /\ dims.L = 4
    /\ \E r \in Rows :
          /\ ~LeftPadded(mask_, r)
          /\ LeftPaddedUpTo(mask_, r, 3)
          /\ Flat(mask_, r, 3)
          /\ Flat(h, r, 4) # Flat(H0, r, 4)

\* h0 = 1, 0, 0, 0 in every channel and the all-valid mask, one row of length 4
UnitImpulse ==
    Tensor(1, 4, [n \in 1 .. 4 |-> IF n = 1 THEN VOne ELSE VZero])

AllValid4 == Tensor(1, 4, [n \in 1 .. 4 |-> TRUE])

(***************************************************************************)
(* C2: for every power-of-two length and every left-padded mask (k invalid *)
(* positions, then valid ones; k = 0 is the all-valid mask) the scan after *)
(* all its levels equals the sequential recurrence at every position; and  *)
(* for the all-valid mask and the unit impulse 1, 0, 0, 0 at length 4 the  *)
(* loop runs exactly 2 levels and yields 1, lam, lam^2, lam^3.             *)
(***************************************************************************)
C2_ScanEqualsSequentialLeftPadded ==
    ScanDone =>
        /\ LET h0 == H0
           IN  \A r \in Rows :
                  LeftPadded(mask_, r) =>
                      \A j \in Times :
                          Flat(h, r, j) = Sequential(h0, mask_, Lam, r, j)
        /\ dims.L = 4 =>
              /\ i = 2
              /\ Scan(UnitImpulse, Lam, AllValid4).d = [n \in 1 .. 4 |-> VPow(Lam, n - 1)]

\* a finished two-level scan of a row padded by one position, carries taken
C2_Witness ==
    /\ ScanDone
    /\ dims.L = 4
    /\ i = 2
    /\ \E r \in Rows :
          /\ LeftPadded(mask_, r)
          /\ ~Flat(mask_, r, 1)
          /\ Flat(mask_, r, 2)
          /\ Flat(h, r, 4) # Flat(H0, r, 4)


(***************************************************************************)
(* Other driving inputs for the same mask: equal to h0 where the mask is   *)
(* valid, one of two foreign values at each invalid position.  The scan is *)
(* additive in h0, so the choices of S below (none, all, each single       *)
(* invalid position) span every assignment of the two values.              *)
(***************************************************************************)
PadValueA == [c \in Channels |-> <<3, -1>>]

PadValueB == [c \in Channels |-> <<-2, 5>>]

InvalidPositions(msk) == {n \in 1 .. Len(msk.d) : ~msk.d[n]}

Repaddings(msk) ==
    {{}, InvalidPositions(msk)} \cup {{n} : n \in InvalidPositions(msk)}

Repadded(h0, msk, S) ==
    Tensor(h0.B, h0.T,
           [n \in 1 .. Len(h0.d) |->
               IF msk.d[n] THEN h0.d[n]
               ELSE IF n \in S THEN PadValueA ELSE PadValueB])

(***************************************************************************)
(* C3: padding invariance.  For any power-of-two length and any mask, a    *)
(* scan of a driving input that differs from h0 only at invalid positions  *)
(* gives the same output as the scan of h0 at every valid position.        *)
(***************************************************************************)
C3_PaddingInvariance ==
    ScanDone =>
        LET h0 == H0
        IN  \A S \in Repaddings(mask_) :
                LET other == Scan(Repadded(h0, mask_, S), Lam, mask_)
                IN  \A n \in 1 .. Len(mask_.d) : mask_.d[n] => other.d[n] = h.d[n]

\* a finished two-level scan whose mask has a gap, with a valid position
\* after an invalid one that has taken a carry
C3_Witness ==
    /\ ScanDone
    /\ dims.L = 4
    /\ \E r \in Rows :
          /\ ~Flat(mask_, r, 1)
          /\ Flat(mask_, r, 2)
          /\ ~Flat(mask_, r, 3)
          /\ Flat(mask_, r, 4)
          /\ Flat(h, r, 4) # Flat(H0, r, 4)
          /\ Flat(Repadded(H0, mask_, {}), r, 3) # Flat(H0, r, 3)

\* the recurrence over the valid positions of the unpadded row r, zero before
RECURSIVE ValidOnly(_, _, _, _, _)
ValidOnly(h0u, msk, lam, r, t) ==
    IF t = 0 \/ ~At(msk, r, t) THEN VZero
    ELSE VAdd(VMul(lam, ValidOnly(h0u, msk, lam, r, t - 1)), At(h0u, r, t))

RowLeftPadded(msk, r) ==
    \A a, b \in 1 .. msk.T : (a < b /\ At(msk, r, a)) => At(msk, r, b)

(***************************************************************************)
(* C4: end-to-end padding transparency.  For a row whose mask is all-valid *)
(* or left-padded, padding to the power of two, scanning and keeping the   *)
(* trailing seq_len positions gives at every valid position the recurrence *)
(* s[t] = lam * s[t-1] + h0[t] run over the valid positions of the         *)
(* unpadded row alone from the zero state, whatever the driving input      *)
(* holds at the pad and the invalid positions.                             *)
(***************************************************************************)
C4_PaddingTransparency ==
    ScanDone =>
        LET h0 == H0
            h0u == Trailing(h0, seq_len)
            Holds(out) ==
                \A r \in 1 .. mask.B :
                    RowLeftPadded(mask, r) =>
                        \A t \in 1 .. seq_len :
                            At(mask, r, t) =>
                                At(Trailing(out, seq_len), r, t) =
                                    ValidOnly(h0u, mask, Lam, r, t)
        IN  /\ Holds(h)
            /\ \A S \in Repaddings(mask_) :
                  Holds(Scan(Repadded(h0, mask_, S), Lam, mask_))

\* a finished scan of a length-3 row (one pad position) whose own first
\* position is invalid and whose last two are valid
C4_Witness ==
    /\ ScanDone
    /\ seq_len = 3
    /\ dims.L = 4
    /\ \E r \in 1 .. mask.B :
          /\ ~At(mask, r, 1)
          /\ At(mask, r, 2)
          /\ At(mask, r, 3)
          /\ At(Trailing(h, seq_len), r, 3) # At(Trailing(H0, seq_len), r, 3)


\* LRUModel.forward has padded and has not yet called a block
JustPadded == pc = "layer" /\ calls = <<>>

(***************************************************************************)
(* C5: pad / truncate round trip.  Right after the padding, the trailing   *)
(* seq_len positions of the padded value tensor are the original value     *)
(* tensor; the padded mask is pad copies of FALSE and then the original    *)
(* mask, the padded values pad zeros and then the original values, row by  *)
(* row; the batch axis and the width are not padded.                       *)
(***************************************************************************)
C5_PadTruncateRoundTrip ==
    JustPadded =>
        LET pad == x.T - seq_len
        IN  /\ Trailing(x, seq_len) = x_arg
            /\ x.B = x_arg.B /\ x.T = x_arg.T + pad /\ Len(x.d) = x.B * x.T
            /\ mask_.B = mask.B /\ mask_.T = mask.T + pad
            /\ Len(mask_.d) = mask_.B * mask_.T
            /\ \A r \in 1 .. x.B : \A j \in 1 .. x.T :
                  /\ At(x, r, j) = IF j <= pad THEN 0 ELSE At(x_arg, r, j - pad)
                  /\ At(mask_, r, j) = IF j <= pad THEN FALSE ELSE At(mask, r, j - pad)

\* two rows of length 3 padded by one position, with a nonzero first value
C5_Witness ==
    /\ JustPadded
    /\ x_arg.B = 2
    /\ x_arg.T = 3
    /\ x.T = 4
    /\ At(x_arg, 2, 1) # 0
    /\ At(mask, 2, 1)

(***************************************************************************)
(* C6: the padder adds 2^ceil(log2 L) - L positions: the padded length is  *)
(* the smallest power of two >= L, the count is >= 0 and < L, and it is 0  *)
(* when L is a power of two (L = 1 included).                              *)
(***************************************************************************)
C6_PadCount ==
    JustPadded =>
        LET L == seq_len
            P == x.T
        IN  /\ L = x_arg.T
            /\ IsPow2(P)
            /\ P >= L
            /\ \A Q \in 1 .. P : (IsPow2(Q) /\ Q >= L) => Q = P
            /\ P - L >= 0
            /\ P - L < L
            /\ IsPow2(L) => P - L = 0
            /\ mask_.T - mask.T = P - L

\* a length that is no power of two has been padded
C6_Witness ==
    /\ JustPadded
    /\ seq_len = 3
    /\ x.T = 4

(***************************************************************************)
(* C7: scan precondition.  Every call into an LRU block passes a value     *)
(* tensor and a mask of the same time length, the smallest power of two    *)
(* >= seq_len; so at every level of every scan the block size 2^i divides  *)
(* the time length, state and mask reshape into the same number of blocks, *)
(* and no reshape fails.                                                   *)
(***************************************************************************)
C7_ScanPrecondition ==
    /\ pc # "error"
    /\ \A k \in 1 .. Len(calls) :
          LET T == calls[k].x.T
          IN  /\ calls[k].mask.T = T
              /\ calls[k].mask.B = calls[k].x.B
              /\ IsPow2(T)
              /\ T >= seq_len
              /\ \A Q \in 1 .. T : (IsPow2(Q) /\ Q >= seq_len) => Q = T
    /\ pc = "scan" =>
          \A lv \in 1 .. dims.log2_L :
              /\ dims.L % Pow2(lv) = 0
              /\ Len(h.d) % Pow2(lv) = 0
              /\ Len(h.d) \div Pow2(lv) = Len(mask_.d) \div Pow2(lv)

\* the second block scans a padded length-3 batch
C7_Witness ==
    /\ pc = "scan"
    /\ Len(calls) = 2
    /\ seq_len = 3
    /\ i = 1

(***************************************************************************)
(* C9: ordering of the stack.  The padding runs once, before the first     *)
(* block; the blocks run in order, each with the same padded mask; the     *)
(* truncation runs once, after the last block; the result has the batch    *)
(* size and the time length of the input.                                  *)
(***************************************************************************)
C9_StackOrdering ==
    /\ npad <= 1
    /\ ntrunc <= 1
    /\ Len(calls) <= layers
    /\ Len(calls) > 0 => npad = 1
    /\ \A k \in 1 .. Len(calls) :
          /\ calls[k].blk = k
          /\ calls[k].mask = calls[1].mask
          /\ calls[k].mask = mask_
    /\ ntrunc = 1 => (pc = "done" /\ Len(calls) = layers)
    /\ pc = "done" =>
          /\ ntrunc = 1
          /\ npad = 1
          /\ x.B = tokens.B
          /\ x.T = tokens.T
          /\ Len(x.d) = tokens.B * tokens.T

\* two blocks have run on a padded batch and the result is truncated
C9_Witness ==
    /\ pc = "done"
    /\ layers = 2
    /\ tokens.T = 3
    /\ calls[2].x.T = 4

(***************************************************************************)
(* C10: update rule and frame of one level.  At level i, in every aligned  *)
(* block of 2^i timesteps of every row the first half is unchanged and the *)
(* element at offset k of the second half grows by lam^k times the last    *)
(* element of the first half times that element's validity flag; the mask  *)
(* and the value tensor are unchanged.                                     *)
(***************************************************************************)
C10_LevelUpdateRule ==
    [][(pc = "scan" /\ i' = i + 1) =>
          LET l == Pow2(i')
              half == l \div 2
          IN  /\ mask_' = mask_
              /\ x' = x
              /\ Len(h'.d) = Len(h.d)
              /\ \A r \in Rows : \A q \in 0 .. (dims.L \div l) - 1 :
                    \A k \in 1 .. half :
                        /\ Flat(h', r, q * l + k) = Flat(h, r, q * l + k)
                        /\ Flat(h', r, q * l + half + k) =
                              VAdd(Flat(h, r, q * l + half + k),
                                   VScale(VMul(VPow(Lam, k), Flat(h, r, q * l + half)),
                                          Bool2Int(Flat(mask_, r, q * l + half))))]_vars

\* the second level has run and moved a carry across a valid boundary
C10_Witness ==
    /\ pc = "scan"
    /\ i = 2
    /\ \E r \in Rows :
          /\ Flat(mask_, r, 2)
          /\ Flat(h, r, 3) # Flat(H0, r, 3)
          /\ Flat(h, r, 4) # Flat(H0, r, 4)


(***************************************************************************)
(* C11: eigenvalue-power doubling.  The power vector used at level i >= 1  *)
(* has exactly 2^(i-1) entries and its k-th entry is lam^k; at level 1 it  *)
(* is the one-entry vector lam, not extended, and at every level i > 1 it  *)
(* is the vector of the level before followed by that vector multiplied by *)
(* its own last entry.                                                     *)
(***************************************************************************)
C11_PowerDoubling ==
    /\ [](pc = "scan" =>
            /\ i = 0 => lamb = <<Lam>>
            /\ i >= 1 =>
                  /\ Len(lamb) = Pow2(i - 1)
                  /\ \A k \in 1 .. Len(lamb) : lamb[k] = VPow(Lam, k))
    /\ [][(pc = "scan" /\ i' = i + 1) =>
             IF i' = 1 THEN lamb' = lamb
             ELSE /\ Len(lamb') = 2 * Len(lamb)
                  /\ \A k \in 1 .. Len(lamb) :
                        /\ lamb'[k] = lamb[k]
                        /\ lamb'[Len(lamb) + k] = VMul(lamb[k], lamb[Len(lamb)])]_vars

\* the third level has run with the powers lam .. lam^4
C11_Witness ==
    /\ pc = "scan"
    /\ i = 3
    /\ Len(lamb) = 4
    /\ lamb[4] # lamb[2]


(***************************************************************************)
(* C12: level count and termination.  For a padded length P = 2^n the scan *)
(* loop of LRULayer.forward ends after exactly n = log2(P) =                *)
(* ceil(log2(seq_len)) levels, run in the order 1, 2, .., n with segment    *)
(* sizes 2, 4, .., P; for seq_len = 1 no level runs and the scan state is   *)
(* the driving input unchanged.                                            *)
(***************************************************************************)
C12_LevelCountAndTermination ==
    /\ [](pc = "scan" =>
            /\ dims.L = Pow2(dims.log2_L)
            /\ dims.log2_L = CeilLog2(seq_len)
            /\ i \in 0 .. dims.log2_L
            /\ i >= 1 => h.T = Pow2(i)
            /\ seq_len = 1 => (i = 0 /\ dims.log2_L = 0 /\ h = H0))
    /\ [][pc = "scan" =>
             \/ pc' = "scan" /\ i' = i + 1 /\ h'.T = Pow2(i')
             \/ pc' = "ffn" /\ i' = i /\ i = dims.log2_L /\ Pow2(i) = dims.L]_vars
    /\ (pc = "scan" /\ i = 0) ~> (pc = "ffn" /\ i = dims.log2_L)

\* a scan of three levels has ended, and so has a scan of no level
C12_Witness ==
    /\ pc = "ffn"
    /\ i = dims.log2_L
    /\ \/ seq_len = 5 /\ i = 3 /\ h.T = 8
       \/ seq_len = 1 /\ i = 0


\* the driving input with one added to every channel at the flat positions S
AlterAt(h0, S) ==
    Tensor(h0.B, h0.T,
           [n \in 1 .. Len(h0.d) |->
               IF n \in S THEN VAdd(h0.d[n], VOne) ELSE h0.d[n]])

\* the mask with the validity of the flat positions S negated
FlipAt(msk, S) ==
    Tensor(msk.B, msk.T,
           [n \in 1 .. Len(msk.d) |-> IF n \in S THEN ~msk.d[n] ELSE msk.d[n]])

\* flat positions, in every row, of the times after t and of the times from t on
After(t) == {(r - 1) * dims.L + u : r \in Rows, u \in (t + 1) .. dims.L}

FromOn(t) == {(r - 1) * dims.L + u : r \in Rows, u \in t .. dims.L}

\* the flat positions of the row that holds the flat position n
RowOfPosition(n) ==
    LET r == (n - 1) \div dims.L IN (r * dims.L + 1) .. ((r + 1) * dims.L)

(***************************************************************************)
(* C13: causality.  For every power-of-two length and every mask the scan  *)
(* output at time t depends only on h0 up to t and on the validity of the  *)
(* times before t: changing h0 after t and the validity from t on (all of  *)
(* them together, or h0 at t + 1 and the validity at t alone) leaves the   *)
(* output up to t unchanged; and the first position of every row is h0's   *)
(* first position.                                                         *)
(***************************************************************************)
C13_Causality ==
    [](ScanDone =>
          LET h0 == H0
          IN  /\ \A r \in Rows : Flat(h, r, 1) = Flat(h0, r, 1)
              /\ \A t \in Times :
                    LET out == Scan(AlterAt(h0, After(t)), Lam,
                                    FlipAt(mask_, FromOn(t))).d
                    IN  \A r \in Rows : \A j \in 1 .. t :
                           out[(r - 1) * dims.L + j] = Flat(h, r, j)
              /\ \A n \in 1 .. dims.B * dims.L :
                    LET out == Scan(AlterAt(h0, {n + 1} \cap RowOfPosition(n)),
                                    Lam, FlipAt(mask_, {n})).d
                    IN  \A m \in RowOfPosition(n) : m <= n => out[m] = h.d[m])

\* a scan of at least two levels whose later output does change when the
\* validity of an earlier position is negated
C13_Witness ==
    /\ ScanDone
    /\ dims.L >= 4
    /\ \E n \in 1 .. dims.B * dims.L :
          /\ Scan(H0, Lam, FlipAt(mask_, {n})).d # h.d
          /\ \A m \in 1 .. n : Scan(H0, Lam, FlipAt(mask_, {n})).d[m] = h.d[m]


\* row b of a tensor as a batch of one
RowOf(ten, b) == Tensor(1, ten.T, [j \in 1 .. ten.T |-> At(ten, b, j)])

\* the rows met by block q of the flat (batch * time) axis cut into blocks of l
BlockRows(q, l) == {((n - 1) \div dims.L) + 1 : n \in ((q - 1) * l + 1) .. (q * l)}

(***************************************************************************)
(* C14: batch-row independence.  With a power-of-two time length L, at     *)
(* every level i <= log2(L) each block of 2^i flat positions lies within   *)
(* one batch row (the state after level i is cut that way), and the scan   *)
(* output of row b is the scan of row b's h0 and row b's mask alone, for   *)
(* every batch size.                                                       *)
(***************************************************************************)
C14_BatchRowIndependence ==
    (pc = "scan" /\ IsPow2(dims.L)) =>
        /\ \A lv \in 1 .. dims.log2_L :
              \A q \in 1 .. ((dims.B * dims.L) \div Pow2(lv)) :
                 Cardinality(BlockRows(q, Pow2(lv))) = 1
        /\ i >= 1 =>
              /\ h.T = Pow2(i)
              /\ h.B * h.T = dims.B * dims.L
              /\ \A q \in 1 .. h.B : Cardinality(BlockRows(q, h.T)) = 1
        /\ i = dims.log2_L =>
              \A b \in Rows :
                 LET alone == Scan(RowOf(H0, b), Lam, RowOf(mask_, b)).d
                 IN  \A j \in Times : Flat(h, b, j) = alone[j]

\* a batch of two rows scanned over two levels with different results
C14_Witness ==
    /\ ScanDone
    /\ dims.B >= 2
    /\ dims.L >= 4
    /\ \E j \in Times : Flat(h, 1, j) # Flat(h, 2, j)
    /\ \E n \in 1 .. dims.L : mask_.d[n] # mask_.d[dims.L + n]


Divides(a, b) == b % a = 0

\* LRULayer.forward has been entered with a length that is no power of two
NotPow2Call == pc \in {"scan", "error", "ffn"} /\ ~IsPow2(dims.L)

(***************************************************************************)
(* C15 as stated: called with a length L that is no power of two, the      *)
(* layer raises a shape error at the first level whose block size 2^i does *)
(* not divide B * L and returns nothing; if 2^ceil(log2 L) divides B * L,  *)
(* no error is raised and a result is returned.  The second half fails:    *)
(* with B = 4 and L = 3 both levels reshape 12 positions, the state ends   *)
(* shaped [3, 4] and the residual addition with the input [4, 3] raises.   *)
(***************************************************************************)
C15_ErrorOnlyAtALevel ==
    NotPow2Call =>
        /\ pc = "error" =>
              /\ i < dims.log2_L
              /\ ~Divides(Pow2(i + 1), dims.B * dims.L)
              /\ \A k \in 1 .. i : Divides(Pow2(k), dims.B * dims.L)
        /\ Divides(Pow2(dims.log2_L), dims.B * dims.L) => pc # "error"

(***************************************************************************)
(* C15: unchecked precondition.  LRULayer.forward never tests that L is a  *)
(* power of two.  Called with L not a power of two it returns no output:   *)
(* a shape error is raised at the first level i <= ceil(log2 L) whose      *)
(* block size 2^i does not divide B * L; if instead 2^ceil(log2 L) divides *)
(* B * L, no level raises, the state ends shaped [B * L / P, P] with       *)
(* P = 2^ceil(log2 L), and the residual addition with the input [B, L]     *)
(* after the loop raises the shape error.  With L a power of two no error  *)
(* is raised.                                                              *)
(***************************************************************************)
C15_UncheckedPrecondition ==
    /\ [](NotPow2Call =>
            /\ pc # "ffn"
            /\ \A k \in 1 .. i : Divides(Pow2(k), dims.B * dims.L)
            /\ (pc = "error" /\ i < dims.log2_L) =>
                  ~Divides(Pow2(i + 1), dims.B * dims.L)
            /\ (pc = "error" /\ i >= dims.log2_L) =>
                  /\ i = dims.log2_L
                  /\ Divides(Pow2(i), dims.B * dims.L)
                  /\ h.T = Pow2(i)
                  /\ h.B = (dims.B * dims.L) \div Pow2(i)
                  /\ <<h.B, h.T>> # <<dims.B, dims.L>>)
    /\ [](pc = "error" => ~IsPow2(dims.L))
    /\ [][/\ pc = "layer" => pc' = "scan"
          /\ (pc = "scan" /\ i < dims.log2_L) =>
                IF Divides(Pow2(i + 1), dims.B * dims.L)
                THEN pc' = "scan" /\ i' = i + 1
                ELSE pc' = "error"
          /\ (pc = "scan" /\ i = dims.log2_L) =>
                IF IsPow2(dims.L) THEN pc' = "ffn" ELSE pc' = "error"]_vars

\* four rows of length 3: both levels have run and the residual addition fails
C15_Witness ==
    /\ pc = "error"
    /\ dims.B = 4
    /\ dims.L = 3
    /\ i = 2
    /\ i = dims.log2_L
    /\ h.B = 3
    /\ h.T = 4


\* LRULayer.forward of block blk has returned
LayerReturned == pc = "ffn" /\ Len(calls) = blk

\* the tensor LRULayer.forward of block blk was called with
Residual == calls[blk].x

\* the output of the layer is layer_norm(out_proj(h).real + Residual), position
\* by position, and has the batch size and the time length of Residual
ResidualAdded ==
    /\ x.B = Residual.B
    /\ x.T = Residual.T
    /\ \A n \in 1 .. x.B * x.T :
          x.d[n] = LayerNorm(OutProjReal(h.d[n]) + Residual.d[n])

(***************************************************************************)
(* C16 as stated: the residual added to the projected scan output is the   *)
(* original input, not the padded and not the projected tensor, and the    *)
(* output has the time length of the tensor the layer was called with.     *)
(* The residual of the first block is the tensor LRUModel.forward has      *)
(* padded: with seq_len = 3 it has length 4 and is not the original input. *)
(***************************************************************************)
C16_ResidualIsUnpaddedInput ==
    LayerReturned =>
        /\ ResidualAdded
        /\ blk = 1 => Residual = x_arg

(***************************************************************************)
(* C16: residual source.  The residual added, position by position before  *)
(* the normalization, to the real part of the projected scan output is the *)
(* tensor the layer was called with, not the projected tensor; in the      *)
(* stack of LRUModel.forward that tensor has the padded length: for the    *)
(* first block it is the left-padded input, whose trailing seq_len         *)
(* positions are the original input, and for a later block a tensor of the *)
(* same padded length.  The output has the time length of the tensor the   *)
(* layer was called with.                                                  *)
(***************************************************************************)
C16_ResidualSource ==
    LayerReturned =>
        /\ ResidualAdded
        /\ Residual.T = Pow2(CeilLog2(seq_len))
        /\ blk = 1 =>
              /\ Residual = PadLeft(x_arg, Pow2(CeilLog2(seq_len)) - seq_len, 0)
              /\ Trailing(Residual, seq_len) = x_arg
        /\ blk > 1 => Residual.T = calls[blk - 1].x.T

\* the first block has returned on a padded input, and the residual shows in
\* its output
C16_Witness ==
    /\ LayerReturned
    /\ blk = 1
    /\ seq_len = 3
    /\ Residual.T = 4
    /\ Residual # x_arg
    /\ \E n \in 1 .. x.B * x.T : x.d[n] # LayerNorm(OutProjReal(h.d[n]))

====
